---- MODULE Spec2Model ----
(***************************************************************************)
(* A model of flight_parser.py: the record validator (validate_row), the   *)
(* file and folder scanners (parse_csv_file, parse_folder), the query      *)
(* matcher (match_query) and the command-line run (main).                  *)
(*                                                                         *)
(* Text is modelled as a sequence of one-character strings, so trimming,   *)
(* pattern matching, parsing and formatting are computed on characters.    *)
(***************************************************************************)
EXTENDS Integers, Sequences, FiniteSets, TLC

VARIABLES
    pc,           \* position of the process of the specification at hand
    pad_year,     \* platform: strftime("%Y") pads a year below 1000 to 4 digits
    cells,        \* validate_row: the raw row given to it
    result,       \* validate_row: what it returned for cells
    rendered,     \* the record of result rendered back into a six-cell row
    reparsed,     \* validate_row: what it returned for rendered
    db,           \* match_query: the dataset
    query,        \* match_query: the query object
    matches,      \* match_query: its outcome for (db, query)
    lines,        \* parse_csv_file: the lines of the file read so far
    valids,       \* parse_csv_file: valids
    errors,       \* parse_csv_file: errors
    folder,       \* parse_folder: the names of the files in the folder
    files,        \* parse_folder and main: the lines of each file opened so far, by path
    paths,        \* parse_folder: the sorted paths still to be parsed
    all_valids,   \* parse_folder: all_valids
    all_errors,   \* parse_folder and main: all_errors
    args,         \* main: the parsed command line
    env,          \* main: what the file system answers during the run
    db_records,   \* main: db_records
    errors_txt,   \* main: the lines written to errors.txt
    exit_code     \* main: the exit code of the run, -1 while it runs

vars == <<pc, pad_year, cells, result, rendered, reparsed, db, query, matches,
          lines, valids, errors, folder, files, paths, all_valids, all_errors,
          args, env, db_records, errors_txt, exit_code>>

----------------------------------------------------------------------------
(* Characters *)

Digits == <<"0", "1", "2", "3", "4", "5", "6", "7", "8", "9">>
DigitSet == { Digits[i] : i \in 1..10 }
Uppers == <<"A", "B", "C", "D", "E", "F", "G", "H", "I", "J", "K", "L", "M", "N", "O", "P", "Q", "R", "S", "T", "U", "V", "W", "X", "Y", "Z">>
Lowers == <<"a", "b", "c", "d", "e", "f", "g", "h", "i", "j", "k", "l", "m", "n", "o", "p", "q", "r", "s", "t", "u", "v", "w", "x", "y", "z">>
UpperSet == { Uppers[i] : i \in 1..26 }
LowerSet == { Lowers[i] : i \in 1..26 }
\* str.strip() and the pattern \s: the whitespace characters that occur in the model
Whitespace == {" ", "\t"}

DigitVal(c) == (CHOOSE i \in 1..10 : Digits[i] = c) - 1

RECURSIVE IntToStr(_)
IntToStr(n) == IF n < 10 THEN <<Digits[n + 1]>>
               ELSE IntToStr(n \div 10) \o <<Digits[(n % 10) + 1]>>

\* "%02d"
Pad2(n) == IF n < 10 THEN <<"0">> \o IntToStr(n) ELSE IntToStr(n)

RECURSIVE lstrip(_)
lstrip(s) == IF s # <<>> /\ Head(s) \in Whitespace THEN lstrip(Tail(s)) ELSE s

RECURSIVE rstrip(_)
rstrip(s) == IF s # <<>> /\ s[Len(s)] \in Whitespace
             THEN rstrip(SubSeq(s, 1, Len(s) - 1)) ELSE s

strip(s) == rstrip(lstrip(s))

\* str.lower() on the ASCII letters
LowerOf(c) == IF c \in UpperSet
              THEN Lowers[CHOOSE i \in 1..26 : Uppers[i] = c]
              ELSE c
lower(s) == [i \in 1..Len(s) |-> LowerOf(s[i])]

----------------------------------------------------------------------------
(* Dates and times: datetime.strptime / strftime with "%Y-%m-%d %H:%M" *)

\* A datetime value; None (parse_datetime's answer for a failure) has ok = FALSE.
None == [ok |-> FALSE, Y |-> 0, m |-> 0, d |-> 0, H |-> 0, M |-> 0]

IsLeap(y) == (y % 4 = 0 /\ y % 100 # 0) \/ y % 400 = 0

DaysInMonth(y, m) == IF m = 2 THEN (IF IsLeap(y) THEN 29 ELSE 28)
                     ELSE IF m \in {4, 6, 9, 11} THEN 30 ELSE 31

\* The number of whitespace characters of s from position p on.
RECURSIVE WsRun(_, _)
WsRun(s, p) == IF p <= Len(s) /\ s[p] \in Whitespace THEN 1 + WsRun(s, p + 1) ELSE 0

\* strptime compiles the format to the pattern
\*   (\d\d\d\d)-(1[0-2]|0[1-9]|[1-9])-(3[01]|[12]\d|0[1-9]|[1-9]| [1-9])\s+
\*   (2[0-3]|[0-1]\d|\d):([0-5]\d|\d)
\* matches it at the start of the text, refuses text left over after the match,
\* and then builds the datetime, which refuses year 0 and a day the month lacks.
\* nm, nd, nh are the lengths of the alternatives taken for month, day and hour:
\* each field is followed by a character no digit matches, so at most one choice
\* of lengths matches.
parse_datetime(s) ==
    LET n == Len(s)
        At(p) == IF p >= 1 /\ p <= n THEN s[p] ELSE ""
        IsD(p) == At(p) \in DigitSet
        V(p) == DigitVal(At(p))
        Month2(p) == \/ At(p) = "1" /\ At(p + 1) \in {"0", "1", "2"}
                     \/ At(p) = "0" /\ IsD(p + 1) /\ At(p + 1) # "0"
        Month1(p) == IsD(p) /\ At(p) # "0"
        Day2(p) == \/ At(p) = "3" /\ At(p + 1) \in {"0", "1"}
                   \/ At(p) \in {"1", "2"} /\ IsD(p + 1)
                   \/ At(p) = "0" /\ IsD(p + 1) /\ At(p + 1) # "0"
                   \/ At(p) = " " /\ IsD(p + 1) /\ At(p + 1) # "0"
        Day1(p) == IsD(p) /\ At(p) # "0"
        Hour2(p) == \/ At(p) = "2" /\ At(p + 1) \in {"0", "1", "2", "3"}
                    \/ At(p) \in {"0", "1"} /\ IsD(p + 1)
        Hour1(p) == IsD(p)
        Min2(p) == At(p) \in {"0", "1", "2", "3", "4", "5"} /\ IsD(p + 1)
        Min1(p) == IsD(p)
        Num(p, len) == IF len = 1 THEN V(p)
                       ELSE IF At(p) = " " THEN V(p + 1)
                       ELSE 10 * V(p) + V(p + 1)
        pm == 6
        Fits(nm, nd, nh) ==
            LET pd == pm + nm + 1
                ns == WsRun(s, pd + nd)
                ph == pd + nd + ns
                pM == ph + nh + 1
                nM == IF Min2(pM) THEN 2 ELSE IF Min1(pM) THEN 1 ELSE 0
            IN  /\ IsD(1) /\ IsD(2) /\ IsD(3) /\ IsD(4) /\ At(5) = "-"
                /\ IF nm = 2 THEN Month2(pm) ELSE Month1(pm)
                /\ At(pm + nm) = "-"
                /\ IF nd = 2 THEN Day2(pd) ELSE Day1(pd)
                /\ ns >= 1
                /\ IF nh = 2 THEN Hour2(ph) ELSE Hour1(ph)
                /\ At(ph + nh) = ":"
                /\ nM >= 1
                /\ pM + nM - 1 = n
        Value(nm, nd, nh) ==
            LET pd == pm + nm + 1
                ph == pd + nd + WsRun(s, pd + nd)
                pM == ph + nh + 1
            IN  [ok |-> TRUE,
                 Y |-> 1000 * V(1) + 100 * V(2) + 10 * V(3) + V(4),
                 m |-> Num(pm, nm),
                 d |-> Num(pd, nd),
                 H |-> Num(ph, nh),
                 M |-> Num(pM, n - pM + 1)]
        found == { t \in {1, 2} \X {1, 2} \X {1, 2} : Fits(t[1], t[2], t[3]) }
    IN  IF found = {} THEN None
        ELSE LET t == CHOOSE t \in found : TRUE
                 dt == Value(t[1], t[2], t[3])
             IN  IF dt.Y >= 1 /\ dt.d <= DaysInMonth(dt.Y, dt.m) THEN dt ELSE None

\* a < b, a <= b on datetime values
DtLt(a, b) ==
    LET ka == <<a.Y, a.m, a.d, a.H, a.M>>
        kb == <<b.Y, b.m, b.d, b.H, b.M>>
    IN  \E i \in 1..5 : ka[i] < kb[i] /\ \A j \in 1..(i - 1) : ka[j] = kb[j]
\* DtLe with the comparison made strict
DtLeStrict(a, b) == DtLt(a, b)
DtLe(a, b) == ~DtLt(b, a)

\* dt.strftime("%Y-%m-%d %H:%M"). The C library decides whether %Y pads a year
\* below 1000 with zeros: pad says which it is.
strftime(dt, pad) ==
    LET y == IntToStr(dt.Y)
        year == IF pad /\ Len(y) < 4
                THEN [i \in 1..(4 - Len(y)) |-> "0"] \o y ELSE y
    IN  year \o <<"-">> \o Pad2(dt.m) \o <<"-">> \o Pad2(dt.d) \o <<" ">>
             \o Pad2(dt.H) \o <<":">> \o Pad2(dt.M)

----------------------------------------------------------------------------
(* Prices: float(), round(price, 2) and str() of the rounded price *)

\* Significant bits of an IEEE-754 double.
DoubleBits == 53

\* float(s) for a decimal literal [+-]digits[.digits] (one of the two digit runs
\* may be empty); any other text of the model raises ValueError (ok = FALSE).
\* The value is sign * (milli / 1000 + a rest below 1/1000), sticky saying that
\* the rest (the digits after the third fraction digit) is not zero.
ParseFloat(s) ==
    LET signed == s # <<>> /\ s[1] \in {"+", "-"}
        body == IF signed THEN Tail(s) ELSE s
        dots == { i \in 1..Len(body) : body[i] = "." }
        dot == IF dots = {} THEN Len(body) + 1 ELSE CHOOSE i \in dots : TRUE
        ip == SubSeq(body, 1, dot - 1)
        fp == SubSeq(body, dot + 1, Len(body))
        wellformed == /\ Cardinality(dots) <= 1
                      /\ Len(ip) + Len(fp) >= 1
                      /\ \A i \in 1..Len(ip) : ip[i] \in DigitSet
                      /\ \A i \in 1..Len(fp) : fp[i] \in DigitSet
        F(i) == IF i <= Len(fp) THEN DigitVal(fp[i]) ELSE 0
        IntVal[i \in 0..Len(ip)] == IF i = 0 THEN 0 ELSE 10 * IntVal[i - 1] + DigitVal(ip[i])
    IN  IF ~wellformed THEN [ok |-> FALSE, neg |-> FALSE, milli |-> 0, sticky |-> FALSE]
        ELSE [ok |-> TRUE,
              neg |-> signed /\ s[1] = "-",
              milli |-> 1000 * IntVal[Len(ip)] + 100 * F(1) + 10 * F(2) + F(3),
              sticky |-> \E i \in 4..Len(fp) : fp[i] # "0"]

\* float(s) of a text: float() itself drops the whitespace around the literal
float(s) == ParseFloat(strip(s))

\* float(n) of a JSON number, given in thousandths
NumFloat(n) == [ok |-> TRUE, neg |-> n < 0, milli |-> IF n < 0 THEN -n ELSE n,
                sticky |-> FALSE]

\* price <= 0 (validate_row's test on the parsed float)
NonPositive(f) == f.neg \/ (f.milli = 0 /\ ~f.sticky)

\* The sign of double(k / 1000) - k / 1000 for k > 0: the double nearest to k/1000
\* keeps DoubleBits significant bits of its binary expansion and rounds on the rest.
\* r is the remainder (in 1/1000 of the last bit produced), sig the significant
\* bits produced so far, last the last bit produced.
RECURSIVE DoubleRest(_, _, _)
DoubleRest(r, sig, last) ==
    IF sig >= DoubleBits
    THEN IF r = 0 THEN 0
         ELSE IF 2 * r > 1000 THEN 1
         ELSE IF 2 * r < 1000 THEN -1
         ELSE IF last = 1 THEN 1 ELSE -1
    ELSE LET bit == IF 2 * r >= 1000 THEN 1 ELSE 0
         IN  DoubleRest(2 * r - 1000 * bit,
                        IF sig > 0 \/ bit = 1 THEN sig + 1 ELSE sig, bit)

RECURSIVE BitLength(_)
BitLength(q) == IF q = 0 THEN 0 ELSE 1 + BitLength(q \div 2)

DoubleCmp(k) == DoubleRest(k % 1000, BitLength(k \div 1000), (k \div 1000) % 2)

\* round(price, 2) of a positive float, in hundredths. round() rounds the exact
\* value of the double correctly, half to even; the double of a literal whose
\* third fraction digit is 5 and is its last lies beside the decimal tie, above
\* or below it as DoubleCmp says.
Round2(f) ==
    LET q == f.milli \div 10
        r == f.milli % 10
    IN  IF r < 5 THEN q
        ELSE IF r > 5 \/ f.sticky THEN q + 1
        ELSE LET c == DoubleCmp(f.milli)
             IN  IF c > 0 THEN q + 1
                 ELSE IF c < 0 THEN q
                 ELSE IF q % 2 = 0 THEN q ELSE q + 1

\* str(x) of a float holding cents / 100 (repr: the shortest text that reads back
\* as the same float): 200.0, 0.5, 0.01
PriceText(cents) ==
    LET i == cents \div 100
        f == cents % 100
    IN  IntToStr(i) \o <<".">> \o
        (IF f % 10 = 0 THEN IntToStr(f \div 10) ELSE Pad2(f))

----------------------------------------------------------------------------
(* The record validator *)

\* RE_FLIGHT_ID = ^[A-Za-z0-9]{2,8}$ and RE_AIRPORT = ^[A-Z]{3}$, matched against
\* a trimmed cell
RE_FLIGHT_ID(s) == /\ Len(s) >= 2 /\ Len(s) <= 8
                   /\ \A i \in 1..Len(s) : s[i] \in UpperSet \cup LowerSet \cup DigitSet

RE_AIRPORT(s) == Len(s) = 3 /\ \A i \in 1..3 : s[i] \in UpperSet

\* The {} validate_row returns in place of a record for an invalid row.
NoRecord == [flight_id |-> <<>>, origin |-> <<>>, destination |-> <<>>,
             departure_datetime |-> <<>>, arrival_datetime |-> <<>>, price |-> 0]

\* The first six cells, trimmed: [c.strip() for c in cells[:6]]
Trimmed(row) == [i \in 1..6 |-> strip(row[i])]

If(c, msg) == IF c THEN <<msg>> ELSE <<>>

\* The presence checks, on the trimmed cells c
PresenceErrors(c) ==
    If(c[1] = <<>>, "missing flight_id")
    \o If(c[2] = <<>>, "missing origin field")
    \o If(c[3] = <<>>, "missing destination field")
    \o If(c[4] = <<>>, "missing departure_datetime")
    \o If(c[5] = <<>>, "missing arrival_datetime")
    \o If(c[6] = <<>>, "missing price")

FlightIdErrors(c) ==
    IF c[1] # <<>> /\ ~RE_FLIGHT_ID(c[1])
    THEN IF Len(c[1]) < 2 \/ Len(c[1]) > 8
         THEN <<"flight_id length must be 2-8 alphanumeric characters">>
         ELSE <<"invalid flight_id format">>
    ELSE <<>>

CodeErrors(c) ==
    If(c[2] # <<>> /\ ~RE_AIRPORT(c[2]), "invalid origin code")
    \o If(c[3] # <<>> /\ ~RE_AIRPORT(c[3]), "invalid destination code")

\* dep_dt, arr_dt: parse_datetime of a cell that is not empty, None otherwise
CellDatetime(s) == IF s # <<>> THEN parse_datetime(s) ELSE None

DatetimeErrors(c) ==
    LET dep_dt == CellDatetime(c[4])
        arr_dt == CellDatetime(c[5])
    IN  If(c[4] # <<>> /\ ~dep_dt.ok, "invalid departure datetime")
        \o If(c[5] # <<>> /\ ~arr_dt.ok, "invalid arrival datetime")
        \o If(dep_dt.ok /\ arr_dt.ok /\ DtLe(arr_dt, dep_dt),
              "arrival before or equal to departure")

PriceErrors(c) ==
    IF c[6] = <<>> THEN <<>>
    ELSE IF ~float(c[6]).ok THEN <<"invalid price format">>
    ELSE If(NonPositive(float(c[6])), "negative or zero price value")

\* RowErrors stopping after the presence checks when one of them failed
RowErrorsPresenceFirst(c) ==
    IF PresenceErrors(c) # <<>> THEN PresenceErrors(c)
    ELSE FlightIdErrors(c) \o CodeErrors(c) \o DatetimeErrors(c) \o PriceErrors(c)

\* errors, as validate_row has accumulated it when it reaches "if errors:"
RowErrors(c) ==
    PresenceErrors(c) \o FlightIdErrors(c) \o CodeErrors(c) \o DatetimeErrors(c)
    \o PriceErrors(c)

\* The record validate_row builds from the trimmed cells of a row without
\* errors; its price is held in hundredths.
BuildRecord(c) ==
    [flight_id |-> c[1],
     origin |-> c[2],
     destination |-> c[3],
     departure_datetime |-> strftime(CellDatetime(c[4]), pad_year),
     arrival_datetime |-> strftime(CellDatetime(c[5]), pad_year),
     price |-> Round2(float(c[6]))]

\* "if errors: return False, {}, errors", and the record otherwise
Decide(c, errs) ==
    IF errs # <<>>
    THEN [valid |-> FALSE, record |-> NoRecord, errors |-> errs]
    ELSE [valid |-> TRUE, record |-> BuildRecord(c), errors |-> <<>>]

\* validate_row from "cells = [c.strip() for c in cells[:6]]" on, c the trimmed cells
ValidateCells(c) == Decide(c, RowErrors(c))

\* validate_row(cells) -> (is_valid, record, errors)
validate_row(row) ==
    IF Len(row) < 6
    THEN [valid |-> FALSE, record |-> NoRecord, errors |-> <<"missing required fields">>]
    ELSE ValidateCells(Trimmed(row))

\* The six stored values of a record as the cells of a row: the strings as they
\* are, the price as str() of the float.
RenderRow(rec) == <<rec.flight_id, rec.origin, rec.destination,
                    rec.departure_datetime, rec.arrival_datetime, PriceText(rec.price)>>

----------------------------------------------------------------------------
(* The rows, queries and lines the specifications draw their inputs from *)

\* Most extra cells after the sixth, and fewest cells, of a row given to validate_row
MaxExtraCells == 1
\* Prices 0.000 .. MaxMilli / 1000 are all tried, three fraction digits each
MaxMilli == 16

AB12 == <<"A","B","1","2">>
JFK == <<"J","F","K">>
LAX == <<"L","A","X">>
CanonicalDeparture == <<"2","0","2","4","-","0","1","-","0","1"," ","0","8",":","0","0">>
Fifty == <<"5","0">>
NoNumber == <<"a","b","c">>

\* valid, valid after trimming, missing, too short, bad character, too long
FlightIdTexts ==
    { <<"A","B","1","2">>,
      <<" ","a","b","1"," ">>,
      <<>>,
      <<"A">>,
      <<"A","B","-","1","2">>,
      <<"A","B","C","D","E","F","G","H","I">> }

\* valid, lower case, blank
OriginTexts ==
    { <<"J","F","K">>,
      <<"j","f","k">>,
      <<" "," ">> }

\* valid, four letters, missing
DestinationTexts ==
    { <<"L","A","X">>,
      <<"L","A","X","X">>,
      <<>> }

\* canonical, unpadded (strptime takes it), missing, no such day, a year below 1000
DepartureTexts ==
    { <<"2","0","2","4","-","0","1","-","0","1"," ","0","8",":","0","0">>,
      <<"2","0","2","4","-","1","-","1"," ","8",":","0","0">>,
      <<>>,
      <<"2","0","2","4","-","0","2","-","3","0"," ","0","8",":","0","0">>,
      <<"0","9","9","9","-","1","2","-","3","1"," ","2","3",":","5","9">> }

\* later, equal to the departure, one minute later, earlier, blank, with seconds
ArrivalTexts ==
    { <<"2","0","2","4","-","0","1","-","0","1"," ","1","4",":","3","0">>,
      <<"2","0","2","4","-","0","1","-","0","1"," ","0","8",":","0","0">>,
      <<"2","0","2","4","-","0","1","-","0","1"," ","0","8",":","0","1">>,
      <<"2","0","2","4","-","0","1","-","0","1"," ","0","6",":","0","0">>,
      <<" ">>,
      <<"2","0","2","4","-","0","1","-","0","1"," ","0","8",":","0","0",":","0","0">> }

\* rounds up to 200.0, integer, padded, a tie below, four digits, zero, negative,
\* no number, missing
PriceLiterals ==
    { <<"1","9","9",".","9","9","9">>,
      <<"5","0">>,
      <<" ","0",".","5"," ">>,
      <<"1",".","0","0","5">>,
      <<"0",".","0","0","4","9">>,
      <<"0">>,
      <<"-","5">>,
      <<"a","b","c">>,
      <<>> }

\* "0.000" .. "0.016": the prices around the smallest amount that rounds to 0.01
SmallPriceTexts == { <<"0", ".">> \o <<Digits[((k \div 100) % 10) + 1]>>
                         \o <<Digits[((k \div 10) % 10) + 1]>> \o <<Digits[(k % 10) + 1]>>
                     : k \in 0..MaxMilli }

PriceTexts == PriceLiterals \cup SmallPriceTexts

ExtraCell == <<"x">>

\* Rows of six cells: every combination of the field texts with a valid, a zero,
\* a malformed and a missing price, and every price text in the rows whose other
\* fields are fine or differ in the timestamps only
FieldPrices == { Fifty, NoNumber, <<"0">>, <<>> }

FieldRows == { <<f, o, d, dep, arr, p>> :
                 f \in FlightIdTexts, o \in OriginTexts, d \in DestinationTexts,
                 dep \in DepartureTexts, arr \in ArrivalTexts, p \in FieldPrices }

PriceRows == { <<AB12, JFK, LAX, dep, arr, p>> :
                 dep \in DepartureTexts, arr \in ArrivalTexts, p \in PriceTexts }

\* The rows that are also tried with extra cells and cut short
LengthRows == { r \in FieldRows : r[4] = CanonicalDeparture /\ r[6] \in {Fifty, NoNumber} }

Rows == FieldRows \cup PriceRows
        \cup { r \o [i \in 1..k |-> ExtraCell] : r \in LengthRows, k \in 1..MaxExtraCells }
        \cup { SubSeq(r, 1, k) : r \in LengthRows, k \in 0..5 }

----------------------------------------------------------------------------
(* Values of the variables a specification does not use *)

NoResult == [valid |-> FALSE, record |-> NoRecord, errors |-> <<>>]
NoMatches == [raised |-> FALSE, matches |-> <<>>]

rowVars == <<cells, result, rendered, reparsed>>
queryVars == <<db, query, matches>>
fileVars == <<lines, valids, errors>>
folderVars == <<folder, files, paths, all_valids>>
mainVars == <<args, env, db_records, errors_txt, exit_code>>

RowIdle == cells = <<>> /\ result = NoResult /\ rendered = <<>> /\ reparsed = NoResult
QueryIdle == db = <<>> /\ query = <<>> /\ matches = NoMatches
FileIdle == lines = <<>> /\ valids = <<>> /\ errors = <<>>
FolderIdle == folder = {} /\ files = <<>> /\ paths = <<>> /\ all_valids = <<>>
MainIdle == args = <<>> /\ env = <<>> /\ db_records = <<>> /\ errors_txt = <<>>
            /\ exit_code = -1

----------------------------------------------------------------------------
(* SpecRow: validate_row applied to a row, its record rendered and validated again *)

InitRow ==
    /\ pc = "row"
    /\ pad_year \in BOOLEAN
    /\ cells \in Rows
    /\ result = NoResult /\ rendered = <<>> /\ reparsed = NoResult
    /\ QueryIdle /\ FileIdle /\ FolderIdle /\ MainIdle /\ all_errors = <<>>

Validate ==
    /\ pc = "row"
    /\ result' = validate_row(cells)
    /\ pc' = "validated"
    /\ UNCHANGED <<pad_year, cells, rendered, reparsed, queryVars, fileVars,
                   folderVars, mainVars, all_errors>>

Render ==
    /\ pc = "validated" /\ result.valid
    /\ rendered' = RenderRow(result.record)
    /\ pc' = "rendered"
    /\ UNCHANGED <<pad_year, cells, result, reparsed, queryVars, fileVars,
                   folderVars, mainVars, all_errors>>

Revalidate ==
    /\ pc = "rendered"
    /\ reparsed' = validate_row(rendered)
    /\ pc' = "revalidated"
    /\ UNCHANGED <<pad_year, cells, result, rendered, queryVars, fileVars,
                   folderVars, mainVars, all_errors>>

NextRow == Validate \/ Render \/ Revalidate

SpecRow == InitRow /\ [][NextRow]_vars

----------------------------------------------------------------------------
(* The query matcher *)

\* JSON values of a query object: a string, a number (in thousandths) or null
JStr(s) == [t |-> "str", s |-> s, n |-> 0]
JNum(n) == [t |-> "num", s |-> <<>>, n |-> n]
JNull == [t |-> "null", s |-> <<>>, n |-> 0]

\* query.get(key): None for a key the query lacks
Get(q, key) == IF key \in DOMAIN q THEN q[key] ELSE JNull

\* Python's truth value of a JSON value
Truthy(v) == (v.t = "str" /\ v.s # <<>>) \/ (v.t = "num" /\ v.n # 0)

\* parse_datetime of a query value: strptime raises TypeError for a value that
\* is no string, which parse_datetime turns into None as well
ParseQueryDatetime(v) == IF v.t = "str" THEN parse_datetime(v.s) ELSE None

\* PriceAbove with the ceiling made exclusive
PriceAboveOrEqual(cents, f) ==
    IF f.neg THEN TRUE ELSE 10 * cents >= f.milli

\* float(rec.get("price", 0)) > q_price, the record's price in hundredths
PriceAbove(cents, f) ==
    IF f.neg THEN ~(cents = 0 /\ f.milli = 0 /\ ~f.sticky)
    ELSE 10 * cents > f.milli

\* q_dep, q_arr and q_price of match_query, from the values the query holds for
\* the three keys; has_price is "q_price is not None"
Bounds(dep_v, arr_v, price_v) ==
    [dep |-> IF Truthy(dep_v) THEN ParseQueryDatetime(dep_v) ELSE None,
     arr |-> IF Truthy(arr_v) THEN ParseQueryDatetime(arr_v) ELSE None,
     has_price |-> price_v.t # "null",
     price |-> IF price_v.t = "str" THEN float(price_v.s) ELSE NumFloat(price_v.n)]

QueryBounds(q) ==
    Bounds(Get(q, "departure_datetime"), Get(q, "arrival_datetime"), Get(q, "price"))

\* The exact-match fields
Exact(rec, q) ==
    /\ "flight_id" \in DOMAIN q => JStr(rec.flight_id) = q["flight_id"]
    /\ "origin" \in DOMAIN q => JStr(rec.origin) = q["origin"]
    /\ "destination" \in DOMAIN q => JStr(rec.destination) = q["destination"]

\* One turn of "for rec in db", r_dep and r_arr the parsed datetimes of rec:
\* "match", "skip", or "raise" (comparing None with a datetime is a TypeError)
Outcome(rec, r_dep, r_arr, q, b) ==
    IF ~Exact(rec, q) THEN "skip"
    ELSE IF b.dep.ok /\ ~r_dep.ok THEN "raise"
    ELSE IF b.dep.ok /\ DtLt(r_dep, b.dep) THEN "skip"
    ELSE IF b.arr.ok /\ ~r_arr.ok THEN "raise"
    ELSE IF b.arr.ok /\ DtLt(b.arr, r_arr) THEN "skip"
    ELSE IF b.has_price /\ PriceAbove(rec.price, b.price) THEN "skip"
    ELSE "match"

RecordOutcome(rec, q, b) ==
    Outcome(rec, parse_datetime(rec.departure_datetime),
            parse_datetime(rec.arrival_datetime), q, b)

\* results after one more record, o its outcome
Collected(before, rec, o) ==
    IF before.raised \/ o = "raise" THEN [raised |-> TRUE, matches |-> <<>>]
    ELSE IF o = "match"
    THEN [raised |-> FALSE, matches |-> Append(before.matches, rec)]
    ELSE before

\* results after the first n records
RECURSIVE MatchRecords(_, _, _, _)
MatchRecords(records, n, q, b) ==
    IF n = 0 THEN [raised |-> FALSE, matches |-> <<>>]
    ELSE Collected(MatchRecords(records, n - 1, q, b), records[n],
                   RecordOutcome(records[n], q, b))

\* match_query after its first three statements: float() of a price that is
\* no number has raised there
MatchWithin(records, q, b) ==
    IF b.has_price /\ ~b.price.ok THEN [raised |-> TRUE, matches |-> <<>>]
    ELSE MatchRecords(records, Len(records), q, b)

\* match_query(db, query): raised says that an exception left the function,
\* matches is the list it returned otherwise.
match_query(records, q) == MatchWithin(records, q, QueryBounds(q))

\* Most records of a dataset given to match_query
MaxDb == 2

\* Normalized records: two flights AB12 that differ in times and price, and a
\* flight of another route that arrives the next day
RecordA ==
    [flight_id |-> <<"A","B","1","2">>, origin |-> <<"J","F","K">>, destination |-> <<"L","A","X">>,
     departure_datetime |-> <<"2","0","2","4","-","0","1","-","0","1"," ","0","8",":","0","0">>,
     arrival_datetime |-> <<"2","0","2","4","-","0","1","-","0","1"," ","1","4",":","3","0">>,
     price |-> 20000]
RecordB ==
    [flight_id |-> <<"A","B","1","2">>, origin |-> <<"J","F","K">>, destination |-> <<"L","A","X">>,
     departure_datetime |-> <<"2","0","2","4","-","0","1","-","0","1"," ","0","9",":","0","0">>,
     arrival_datetime |-> <<"2","0","2","4","-","0","1","-","0","1"," ","1","5",":","0","0">>,
     price |-> 9999]
RecordC ==
    [flight_id |-> <<"Z","Z","9">>, origin |-> <<"L","H","R">>, destination |-> <<"J","F","K">>,
     departure_datetime |-> <<"2","0","2","4","-","0","1","-","0","1"," ","0","8",":","0","0">>,
     arrival_datetime |-> <<"2","0","2","4","-","0","1","-","0","2"," ","0","1",":","0","0">>,
     price |-> 25000]
Records == {RecordA, RecordB, RecordC}

Datasets == UNION { [1..n -> Records] : n \in 0..MaxDb }

\* The values a query may give each field; Absent stands for a field left out
Absent == [t |-> "absent", s |-> <<>>, n |-> 0]
QFlightIds == { Absent, JStr(AB12), JStr(<<"a","b","1","2">>) }
QOrigins == { Absent, JStr(JFK) }
QDestinations == { Absent, JStr(JFK) }
\* absent, a bound between the departures, no datetime, empty
QDepartures == { Absent, JStr(<<"2","0","2","4","-","0","1","-","0","1"," ","0","9",":","0","0">>),
                 JStr(<<"t","o","m","o","r","r","o","w">>), JStr(<<>>) }
\* absent, the arrival of RecordA, no datetime
QArrivals == { Absent, JStr(<<"2","0","2","4","-","0","1","-","0","1"," ","1","4",":","3","0">>),
               JStr(<<"1","4",":","3","0">>) }
\* absent, 200 (the price of RecordA), 100, "250", no number, null
QPrices == { Absent, JNum(200000), JNum(100000), JStr(<<" ","2","5","0">>),
             JStr(NoNumber), JNull }
\* a field match_query does not know
QOthers == { Absent, JStr(<<"D","e","l","t","a">>) }

QueryOf(f, o, d, dep, arr, p, x) ==
    LET all == [k \in {"flight_id", "origin", "destination", "departure_datetime",
                       "arrival_datetime", "price", "airline"} |->
                CASE k = "flight_id" -> f
                  [] k = "origin" -> o
                  [] k = "destination" -> d
                  [] k = "departure_datetime" -> dep
                  [] k = "arrival_datetime" -> arr
                  [] k = "price" -> p
                  [] OTHER -> x]
        keys == { k \in DOMAIN all : all[k] # Absent }
    IN  [k \in keys |-> all[k]]

Queries == { QueryOf(f, o, d, dep, arr, p, x) :
               f \in QFlightIds, o \in QOrigins, d \in QDestinations,
               dep \in QDepartures, arr \in QArrivals, p \in QPrices, x \in QOthers }

----------------------------------------------------------------------------
(* SpecQuery: match_query applied to a dataset and a query *)

InitQuery ==
    /\ pc = "query"
    /\ pad_year = TRUE
    /\ db \in Datasets
    /\ query \in Queries
    /\ matches = NoMatches
    /\ RowIdle /\ FileIdle /\ FolderIdle /\ MainIdle /\ all_errors = <<>>

Match ==
    /\ pc = "query"
    /\ matches' = match_query(db, query)
    /\ pc' = "matched"
    /\ UNCHANGED <<pad_year, db, query, rowVars, fileVars, folderVars, mainVars,
                   all_errors>>

NextQuery == Match

SpecQuery == InitQuery /\ [][NextQuery]_vars

----------------------------------------------------------------------------
(* Properties of validate_row, checked under SpecRow *)

InErrors(r, msg) == \E i \in 1..Len(r.errors) : r.errors[i] = msg

\* C3: every record validate_row produces has a stored price (the input price
\* rounded to 2 decimal places) strictly greater than 0, also for positive input
\* prices below 0.005.
C3_StoredPricePositive ==
    (pc = "validated" /\ result.valid) => result.record.price > 0

\* C4: for every row validate_row accepts, the record rendered back into a row of
\* six cells is accepted again and yields a record identical in all six fields.
C4_RevalidationIdentical ==
    pc = "revalidated" => (reparsed.valid /\ reparsed.record = result.record)

\* The reasons in the order the claim fixes; the two flight_id reasons share a
\* place, and so do the two price reasons.
ReasonOrder ==
    << {"missing flight_id"}, {"missing origin field"}, {"missing destination field"},
       {"missing departure_datetime"}, {"missing arrival_datetime"}, {"missing price"},
       {"flight_id length must be 2-8 alphanumeric characters", "invalid flight_id format"},
       {"invalid origin code"}, {"invalid destination code"},
       {"invalid departure datetime"}, {"invalid arrival datetime"},
       {"arrival before or equal to departure"},
       {"negative or zero price value", "invalid price format"} >>

Place(msg) == CHOOSE i \in 1..Len(ReasonOrder) : msg \in ReasonOrder[i]

HasReasonAt(r, place) == \E i \in 1..Len(r.errors) : r.errors[i] \in ReasonOrder[place]

\* C5: for a row of at least 6 cells validate_row evaluates every field check
\* without stopping at the first failure and returns the reasons in the fixed
\* order (missing-field reasons for the six fields, flight_id length/format,
\* origin code, destination code, departure datetime, arrival datetime, ordering,
\* price); an empty trimmed field contributes only its missing-field reason; the
\* row is accepted iff the list is empty.
C5_AllChecksInFixedOrder ==
    (pc = "validated" /\ Len(cells) >= 6) =>
        LET c == [i \in 1..6 |-> strip(cells[i])]
            blank(i) == c[i] = <<>>
            price == float(c[6])
        IN  /\ \A i \in 1..Len(result.errors) :
                  \E place \in 1..Len(ReasonOrder) : result.errors[i] \in ReasonOrder[place]
            /\ \A i, j \in 1..Len(result.errors) :
                  i < j => Place(result.errors[i]) < Place(result.errors[j])
            /\ \A i \in 1..6 : HasReasonAt(result, i) <=> blank(i)
            /\ HasReasonAt(result, 7) <=> (~blank(1) /\ ~RE_FLIGHT_ID(c[1]))
            /\ InErrors(result, "flight_id length must be 2-8 alphanumeric characters")
                  <=> (~blank(1) /\ (Len(c[1]) < 2 \/ Len(c[1]) > 8))
            /\ HasReasonAt(result, 8) <=> (~blank(2) /\ ~RE_AIRPORT(c[2]))
            /\ HasReasonAt(result, 9) <=> (~blank(3) /\ ~RE_AIRPORT(c[3]))
            /\ HasReasonAt(result, 10) <=> (~blank(4) /\ ~parse_datetime(c[4]).ok)
            /\ HasReasonAt(result, 11) <=> (~blank(5) /\ ~parse_datetime(c[5]).ok)
            /\ InErrors(result, "invalid price format") <=> (~blank(6) /\ ~price.ok)
            /\ InErrors(result, "negative or zero price value")
                  <=> (~blank(6) /\ price.ok /\ NonPositive(price))
            /\ result.valid <=> result.errors = <<>>

\* A row with a missing field, a malformed identifier, a bad code, an unparseable
\* timestamp and a bad price at once
C5_Witness ==
    /\ pc = "validated" /\ Len(cells) >= 6
    /\ HasReasonAt(result, 2) /\ HasReasonAt(result, 7) /\ HasReasonAt(result, 9)
    /\ HasReasonAt(result, 10) /\ HasReasonAt(result, 13)

\* Minutes on a scale that keeps the order of the timestamps
Minutes(dt) == (((dt.Y * 12 + dt.m) * 31 + dt.d) * 24 + dt.H) * 60 + dt.M

\* C6: for a row of at least 6 cells, validate_row reports "arrival before or equal
\* to departure" iff both timestamps parse and arrival <= departure (equal is
\* flagged, one minute later is not); it never reports it when a timestamp is
\* missing or unparseable.
C6_OrderingReasonIffNotAfter ==
    (pc = "validated" /\ Len(cells) >= 6) =>
        LET dep == parse_datetime(strip(cells[4]))
            arr == parse_datetime(strip(cells[5]))
        IN  InErrors(result, "arrival before or equal to departure")
                <=> (dep.ok /\ arr.ok /\ Minutes(arr) <= Minutes(dep))

\* A row whose arrival equals its departure, flagged
C6_Witness ==
    /\ pc = "validated" /\ Len(cells) >= 6
    /\ parse_datetime(strip(cells[4])).ok
    /\ parse_datetime(strip(cells[5])) = parse_datetime(strip(cells[4]))
    /\ InErrors(result, "arrival before or equal to departure")

----------------------------------------------------------------------------
(* Properties of match_query, checked under SpecQuery *)

\* A datetime constraint that is present and is no `YYYY-MM-DD HH:MM` text
UnparseableDatetime(q, key) ==
    key \in DOMAIN q /\ (q[key].t # "str" \/ ~parse_datetime(q[key].s).ok)

\* A price constraint that is present and is no number
UnparseablePrice(q) ==
    "price" \in DOMAIN q
    /\ (q["price"].t = "null" \/ (q["price"].t = "str" /\ ~float(q["price"].s).ok))

\* C1: a query whose departure_datetime, arrival_datetime or price is present with
\* a value that cannot be parsed makes match_query fail with a query-level error;
\* it never returns a match list computed as if the constraint were absent.
C1_UnparseableConstraintRaises ==
    (pc = "matched"
     /\ (\/ UnparseableDatetime(query, "departure_datetime")
         \/ UnparseableDatetime(query, "arrival_datetime")
         \/ UnparseablePrice(query)))
    => matches.raised

\* The value of a price constraint in thousandths
PriceBound(v) == LET f == IF v.t = "str" THEN float(v.s) ELSE NumFloat(v.n)
                 IN  IF f.neg THEN (IF f.sticky THEN -f.milli - 1 ELSE -f.milli)
                     ELSE f.milli

\* A record satisfies all the constraints present in the query
Satisfies(rec, q) ==
    /\ \A key \in {"flight_id", "origin", "destination"} \cap DOMAIN q :
          q[key].t = "str" /\ q[key].s = rec[key]
    /\ "departure_datetime" \in DOMAIN q =>
          Minutes(parse_datetime(rec.departure_datetime))
              >= Minutes(parse_datetime(q["departure_datetime"].s))
    /\ "arrival_datetime" \in DOMAIN q =>
          Minutes(parse_datetime(rec.arrival_datetime))
              <= Minutes(parse_datetime(q["arrival_datetime"].s))
    /\ "price" \in DOMAIN q => 10 * rec.price <= PriceBound(q["price"])

RECURSIVE Subsequence(_, _)
Subsequence(records, q) ==
    IF records = <<>> THEN <<>>
    ELSE (IF Satisfies(Head(records), q) THEN <<Head(records)>> ELSE <<>>)
         \o Subsequence(Tail(records), q)

ParseableQuery(q) ==
    /\ ~UnparseableDatetime(q, "departure_datetime")
    /\ ~UnparseableDatetime(q, "arrival_datetime")
    /\ ~UnparseablePrice(q)

\* C2: for a dataset of normalized records and a query with parseable constraint
\* values, match_query returns exactly the subsequence of the dataset (order kept,
\* duplicates retained) of the records satisfying all constraints present: string
\* equality for flight_id, origin, destination; departure >= bound; arrival <=
\* bound; price <= bound. Absent and unrecognized fields constrain nothing.
C2_MatchesAreSatisfyingSubsequence ==
    (pc = "matched" /\ ParseableQuery(query)) =>
        (~matches.raised /\ matches.matches = Subsequence(db, query))

\* A query with a departure bound and a price ceiling that keeps the second of two
\* records, and the empty query keeping both
C2_Witness ==
    /\ pc = "matched" /\ ParseableQuery(query)
    /\ {"departure_datetime", "price", "airline"} \subseteq DOMAIN query
    /\ Len(db) = 2 /\ matches.matches = <<db[2]>> /\ db[1] # db[2]

----------------------------------------------------------------------------
(* The file scanner *)

\* A run of 131073 letters x, taken as one element of a line: longer than
\* csv.field_size_limit() (131072), the one thing csv.reader refuses in a line that
\* open() has read in universal-newlines mode
OverLimitRun == "x * 131073"

Min(S) == CHOOSE x \in S : \A y \in S : x <= y

\* One field of csv.reader's parse of a line (default dialect: delimiter ",",
\* quotechar '"', doublequote, not strict), the field starting at position p:
\* the cell and the position after the comma that ends it (0 at the end of the
\* line).
\*  - A field that does not open with a quote runs to the next comma.
\*  - In a field that opens with a quote, quotes come in runs: of each pair the
\*    first is dropped and the second kept, and the last quote of the first run of
\*    odd length closes the quoting. What follows the closing quote is kept as
\*    it is up to the next comma; with no closing quote the field runs to the end
\*    of the line.
CsvField(line, p) ==
    LET n == Len(line)
        IsQuote(j) == line[j] = "\""
        quoted == p <= n /\ IsQuote(p)
        \* the place of quote j in its run of quotes after the opening one
        InRun(j) == j - Min({ i \in (p + 1)..j : \A k \in i..j : IsQuote(k) }) + 1
        closing == { j \in (p + 1)..n :
                       /\ IsQuote(j) /\ (j = n \/ ~IsQuote(j + 1))
                       /\ InRun(j) % 2 = 1 }
        close == IF closing = {} THEN n + 1 ELSE Min(closing)
        from == IF quoted THEN close + 1 ELSE p
        commas == { j \in from..n : line[j] = "," }
        end == IF commas = {} THEN n + 1 ELSE Min(commas)
        inside == SelectSeq([i \in 1..(close - p - 1) |-> p + i],
                            LAMBDA j : ~IsQuote(j) \/ InRun(j) % 2 = 0)
        kept == IF quoted
                THEN [i \in 1..Len(inside) |-> line[inside[i]]]
                     \o SubSeq(line, close + 1, end - 1)
                ELSE SubSeq(line, p, end - 1)
    IN  [cell |-> kept, next |-> IF end > n THEN 0 ELSE end + 1]

RECURSIVE CsvFields(_, _)
CsvFields(line, p) ==
    LET f == CsvField(line, p)
    IN  IF f.next = 0 THEN <<f.cell>> ELSE <<f.cell>> \o CsvFields(line, f.next)

\* next(csv.reader([line])): raised says that csv.Error left the reader, which
\* it does when a field grows past the field size limit.
CsvSplit(line) ==
    IF \E j \in 1..Len(line) : line[j] = OverLimitRun
    THEN [raised |-> TRUE, cells |-> <<>>]
    ELSE [raised |-> FALSE, cells |-> IF line = <<>> THEN <<>> ELSE CsvFields(line, 1)]

FlightIdHeader == <<"f","l","i","g","h","t","_","i","d">>

CommentMessage == <<"comment line, ignored for data parsing">>
MalformedMessage == <<"malformed CSV line">>

\* What the row of line number i appends to valids and to errors, v being what
\* validate_row returned for it. An entry of errors is (line number, line,
\* message), the message held as the list of its reasons, which the code joins
\* with ", ".
ScanRow(i, line, v) ==
    IF v.valid THEN [valids |-> <<v.record>>, errors |-> <<>>]
    ELSE [valids |-> <<>>, errors |-> << <<i, line, v.errors>> >>]

\* The same for the cells csv.reader made of the line: the header is skipped
ScanCells(i, line, row) ==
    IF Len(row) >= 1 /\ lower(strip(row[1])) = FlightIdHeader
    THEN [valids |-> <<>>, errors |-> <<>>]
    ELSE ScanRow(i, line, validate_row(row))

\* What the body of parse_csv_file's loop appends to valids and to errors for
\* line number i, from "cells = next(csv.reader([line]))" on
ScanData(i, line) ==
    IF CsvSplit(line).raised
    THEN [valids |-> <<>>, errors |-> << <<i, line, MalformedMessage>> >>]
    ELSE ScanCells(i, line, CsvSplit(line).cells)

\* ScanLine without the test for a comment
ScanLineCommentsAsData(i, line) ==
    IF strip(line) = <<>> THEN [valids |-> <<>>, errors |-> <<>>]
    ELSE ScanData(i, line)

\* The whole body of the loop; line is raw without its newline.
ScanLine(i, line) ==
    IF strip(line) = <<>> THEN [valids |-> <<>>, errors |-> <<>>]
    ELSE IF Head(lstrip(line)) = "#"
    THEN [valids |-> <<>>, errors |-> << <<i, line, CommentMessage>> >>]
    ELSE ScanData(i, line)

\* valids and errors after one more line
Extended(before, one) ==
    [valids |-> before.valids \o one.valids, errors |-> before.errors \o one.errors]

\* valids and errors after the first n turns of "for i, raw in enumerate(f, start=1)"
RECURSIVE ScanLines(_, _)
ScanLines(ls, n) ==
    IF n = 0 THEN [valids |-> <<>>, errors |-> <<>>]
    ELSE Extended(ScanLines(ls, n - 1), ScanLine(n, ls[n]))

\* parse_csv_file(path) for a file holding the lines ls
parse_csv_file(ls) == ScanLines(ls, Len(ls))

\* Most lines of a file scanned under SpecFile
MaxLines == 3

ValidLine == <<"A","B","1","2",",","J","F","K",",","L","A","X",",","2","0","2","4","-","0","1","-","0","1"," ","0","8",":","0","0",",","2","0","2","4","-","0","1","-","0","1"," ","1","4",":","3","0",",","1","9","9",".","9","9","9">>
OtherValidLine == <<"Z","Z","9",",","L","H","R",",","J","F","K",",","2","0","2","4","-","0","1","-","0","1"," ","0","8",":","0","0",",","2","0","2","4","-","0","1","-","0","2"," ","0","1",":","0","0",",","2","5","0">>
InvalidLine == <<"A",",","j","f","k",",","L","A","X",",","2","0","2","4","-","0","1","-","0","1"," ","0","8",":","0","0",",","2","0","2","4","-","0","1","-","0","1"," ","0","6",":","0","0",",","5","0">>
HeaderLine == <<"f","l","i","g","h","t","_","i","d",",","o","r","i","g","i","n",",","d","e","s","t","i","n","a","t","i","o","n",",","d","e","p","a","r","t","u","r","e","_","d","a","t","e","t","i","m","e",",","a","r","r","i","v","a","l","_","d","a","t","e","t","i","m","e",",","p","r","i","c","e">>
CommentLine == <<"#"," ","n","o","t","e">>

\* empty; whitespace; a comment; an indented comment that holds a valid row; the
\* header; a header in other case, padded and short; the header quoted; a valid
\* row; an invalid row; a row cut short; a row with quoted cells, one holding a
\* comma; a row with a field over the limit
Lines ==
    { <<>>,
      <<" ","\t">>,
      CommentLine,
      <<" "," ","#","A","B","1","2",",","J","F","K",",","L","A","X",",","2","0","2","4","-","0","1","-","0","1"," ","0","8",":","0","0",",","2","0","2","4","-","0","1","-","0","1"," ","1","4",":","3","0",",","1","9","9",".","9","9","9">>,
      HeaderLine,
      <<" ","F","l","i","g","h","t","_","I","D"," ",",","x">>,
      <<"\"","f","l","i","g","h","t","_","i","d","\"",",","o","r","i","g","i","n">>,
      ValidLine,
      InvalidLine,
      <<"A","B","1","2",",","J","F","K">>,
      <<"\"","A","B","1","2","\"",",","\"","J","F","K","\"",",","L","A","X",",","2","0","2","4","-","0","1","-","0","1"," ","0","8",":","0","0",",","2","0","2","4","-","0","1","-","0","1"," ","1","4",":","3","0",",","\"","1",",","5","\"">>,
      <<"A","B","1","2",",","J","F","K",",","L","A","X",",">> \o <<OverLimitRun>> }

----------------------------------------------------------------------------
(* SpecFile: parse_csv_file reading a file line by line *)

InitFile ==
    /\ pc = "scan"
    /\ pad_year = TRUE
    /\ lines = <<>> /\ valids = <<>> /\ errors = <<>>
    /\ RowIdle /\ QueryIdle /\ FolderIdle /\ MainIdle /\ all_errors = <<>>

\* One turn of "for i, raw in enumerate(f, start=1)"
ReadLine ==
    /\ pc = "scan" /\ Len(lines) < MaxLines
    /\ \E line \in Lines : \E one \in {ScanLine(Len(lines) + 1, line)} :
              /\ lines' = Append(lines, line)
              /\ valids' = valids \o one.valids
              /\ errors' = errors \o one.errors
    /\ UNCHANGED <<pc, pad_year, rowVars, queryVars, folderVars, mainVars, all_errors>>

\* The end of the file: return valids, errors
EndOfFile ==
    /\ pc = "scan"
    /\ pc' = "returned"
    /\ UNCHANGED <<pad_year, fileVars, rowVars, queryVars, folderVars, mainVars,
                   all_errors>>

NextFile == ReadLine \/ EndOfFile

SpecFile == InitFile /\ [][NextFile]_vars

----------------------------------------------------------------------------
(* Properties of parse_csv_file, checked under SpecFile *)

\* The kinds of line, told from the line's text
BlankLine(line) == \A k \in 1..Len(line) : line[k] \in Whitespace

FirstMark(line) == Min({ k \in 1..Len(line) : line[k] \notin Whitespace })

CommentedLine(line) == ~BlankLine(line) /\ line[FirstMark(line)] = "#"

HeaderedLine(line) ==
    /\ ~BlankLine(line) /\ ~CommentedLine(line)
    /\ ~CsvSplit(line).raised
    /\ Len(CsvSplit(line).cells) >= 1
    /\ lower(strip(CsvSplit(line).cells[1])) = FlightIdHeader

DataLine(line) == ~BlankLine(line) /\ ~CommentedLine(line) /\ ~HeaderedLine(line)

\* The places in errors of the diagnostics about line number i
DiagnosticsOf(i) == { k \in 1..Len(errors) : errors[k][1] = i }

\* The data lines that got no diagnostic, in line order
AcceptedLines ==
    SelectSeq([i \in 1..Len(lines) |-> i],
              LAMBDA i : DataLine(lines[i]) /\ DiagnosticsOf(i) = {})

\* C9: every line read by parse_csv_file contributes as its kind says: a blank
\* line and a header line contribute nothing; a comment line contributes exactly
\* one diagnostic, the informational one, and no record; any other line
\* contributes exactly one item, a record or a diagnostic that is not the
\* informational one. Every diagnostic carries the 1-indexed number of its line
\* and the line's text, and diagnostics and records come in line order.
C9_EveryLineContributesAsItsKind ==
    /\ \A k \in 1..Len(errors) :
          /\ errors[k][1] \in 1..Len(lines)
          /\ errors[k][2] = lines[errors[k][1]]
    /\ \A k \in 1..Len(errors) : \A l \in 1..Len(errors) :
          k < l => errors[k][1] < errors[l][1]
    /\ \A i \in 1..Len(lines) :
          /\ (BlankLine(lines[i]) \/ HeaderedLine(lines[i])) => DiagnosticsOf(i) = {}
          /\ CommentedLine(lines[i]) =>
                /\ Cardinality(DiagnosticsOf(i)) = 1
                /\ \A k \in DiagnosticsOf(i) : errors[k][3] = CommentMessage
          /\ DataLine(lines[i]) =>
                /\ Cardinality(DiagnosticsOf(i)) <= 1
                /\ \A k \in DiagnosticsOf(i) :
                      errors[k][3] # CommentMessage /\ errors[k][3] # <<>>
    /\ Len(valids) = Len(AcceptedLines)
    /\ \A k \in 1..Len(AcceptedLines) :
          LET v == validate_row(CsvSplit(lines[AcceptedLines[k]]).cells)
          IN  v.valid /\ valids[k] = v.record

\* A file read to its end that holds the header, a comment and a valid row: one
\* record, and one diagnostic, about line 2
C9_Witness ==
    /\ pc = "returned"
    /\ lines = <<HeaderLine, CommentLine, ValidLine>>
    /\ Len(valids) = 1
    /\ Len(errors) = 1 /\ errors[1][1] = 2 /\ errors[1][3] = CommentMessage

----------------------------------------------------------------------------
(* parse_folder (lines 132-141) *)

\* The characters of the paths, in code point order: sorted() compares strings
\* code point by code point
CodePoints ==
    <<".", "/">> \o Digits \o Uppers \o <<"_">> \o Lowers

ord(c) == CHOOSE k \in 1..Len(CodePoints) : CodePoints[k] = c

\* str.__lt__: the first differing character decides, a proper prefix is less
StrLt(a, b) ==
    \E k \in 1..(Len(b)) :
        /\ k <= Len(a) + 1
        /\ \A j \in 1..(k - 1) : a[j] = b[j]
        /\ (k = Len(a) + 1 \/ ord(a[k]) < ord(b[k]))

\* The set S of strings as a list, greatest first
RECURSIVE sorted_descending(_)
sorted_descending(S) ==
    IF S = {} THEN <<>>
    ELSE LET first == CHOOSE x \in S : \A y \in S \ {x} : StrLt(y, x)
         IN  <<first>> \o sorted_descending(S \ {first})

\* sorted(paths): the set S of strings as a list, least first
RECURSIVE sorted(_)
sorted(S) ==
    IF S = {} THEN <<>>
    ELSE LET first == CHOOSE x \in S : \A y \in S \ {x} : StrLt(x, y)
         IN  <<first>> \o sorted(S \ {first})

DotCsv == <<".","c","s","v">>

\* fnmatch of a file name against "*.csv": the name ends in .csv, and glob leaves
\* out the names that start with a dot
MatchesStarCsv(name) ==
    /\ Len(name) >= Len(DotCsv)
    /\ SubSeq(name, Len(name) - Len(DotCsv) + 1, Len(name)) = DotCsv
    /\ Head(name) # "."

\* os.path.join(folder, name)
PathJoin(dir, name) == dir \o <<"/">> \o name

\* glob.glob(os.path.join(folder, "*.csv")) in a folder dir that holds names
glob(dir, names) == { PathJoin(dir, name) : name \in { n \in names : MatchesStarCsv(n) } }

\* os.path.basename(path)
basename(path) ==
    LET slashes == { k \in 1..Len(path) : path[k] = "/" }
    IN  IF slashes = {} THEN path
        ELSE SubSeq(path, (CHOOSE k \in slashes : \A j \in slashes : j <= k) + 1, Len(path))

\* "(p, ln, raw, msg) for (ln, raw, msg) in e"
TagErrors(p, e) == [k \in 1..Len(e) |-> <<p>> \o e[k]]

\* Most names in a folder, and most lines in all the files of a folder
MaxFiles == 3
MaxFolderLines == 3

DataDir == <<"d","a","t","a">>

FileNames == { <<"a",".","c","s","v">>, <<"B",".","c","s","v">>, <<"b",".","c","s","v">>, <<".","c","s","v">>, <<"a",".","c","s","v",".","t","x","t">> }

FolderLines == { ValidLine, OtherValidLine, InvalidLine }

\* The files of at most n lines
FileBodies(n) == UNION { [1..k -> FolderLines] : k \in 0..n }

Listings == { S \in SUBSET FileNames : Cardinality(S) <= MaxFiles }

----------------------------------------------------------------------------
(* SpecFolder: parse_folder over a folder of files *)

InitFolder ==
    /\ pc = "glob"
    /\ pad_year = TRUE
    /\ folder \in Listings
    /\ files = <<>> /\ paths = <<>> /\ all_valids = <<>> /\ all_errors = <<>>
    /\ RowIdle /\ QueryIdle /\ FileIdle /\ MainIdle

\* "paths = sorted(glob.glob(os.path.join(folder, "*.csv")))"
Glob ==
    /\ pc = "glob"
    /\ paths' = sorted(glob(DataDir, folder))
    /\ pc' = "files"
    /\ UNCHANGED <<pad_year, folder, files, all_valids, all_errors,
                   rowVars, queryVars, fileVars, mainVars>>

\* The lines of the files opened so far
RECURSIVE LinesRead(_)
LinesRead(fs) == IF fs = <<>> THEN 0 ELSE Len(Head(fs)[2]) + LinesRead(Tail(fs))

\* One turn of "for p in paths": the file p is opened and holds body
ParseNextFile ==
    /\ pc = "files" /\ paths # <<>>
    /\ \E body \in FileBodies(MaxFolderLines - LinesRead(files)) :
       \E parsed \in {parse_csv_file(body)} :
          LET p == Head(paths)
          IN  /\ files' = Append(files, <<p, body>>)
              /\ all_valids' = all_valids \o parsed.valids
              /\ all_errors' = all_errors \o TagErrors(p, parsed.errors)
    /\ paths' = Tail(paths)
    /\ UNCHANGED <<pc, pad_year, folder, rowVars, queryVars, fileVars, mainVars>>

\* "return all_valids, all_errors"
ReturnFolder ==
    /\ pc = "files" /\ paths = <<>>
    /\ pc' = "returned"
    /\ UNCHANGED <<pad_year, folderVars, all_errors, rowVars, queryVars, fileVars,
                   mainVars>>

NextFolder == Glob \/ ParseNextFile \/ ReturnFolder

SpecFolder == InitFolder /\ [][NextFolder]_vars

----------------------------------------------------------------------------
(* Properties of parse_folder, checked under SpecFolder *)

\* The paths of the folder's CSV files in lexicographic order: each once, and
\* each before every greater one
PathOrder ==
    LET P == glob(DataDir, folder)
    IN  CHOOSE s \in [1..Cardinality(P) -> P] :
           /\ \A p \in P : \E k \in 1..Cardinality(P) : s[k] = p
           /\ \A i \in 1..Cardinality(P) : \A j \in 1..Cardinality(P) :
                 i < j => StrLt(s[i], s[j])

\* What the file at path p held when it was opened
BodyOf(p) == files[CHOOSE k \in 1..Len(files) : files[k][1] = p][2]

\* The records and the diagnostics of the first n files of order, file after
\* file, each diagnostic with the path of its file put before its line number
RECURSIVE FilesJoined(_, _)
FilesJoined(order, n) ==
    IF n = 0 THEN [valids |-> <<>>, errors |-> <<>>]
    ELSE LET before == FilesJoined(order, n - 1)
             p == order[n]
             parsed == parse_csv_file(BodyOf(p))
             e == parsed.errors
         IN  [valids |-> before.valids \o parsed.valids,
              errors |-> before.errors \o
                         [k \in 1..Len(e) |-> <<p, e[k][1], e[k][2], e[k][3]>>]]

\* C10: parse_folder opens the folder's CSV files in lexicographically sorted
\* path order, each once; its dataset is the files' datasets joined in that
\* order and its diagnostics are the files' diagnostics joined in that order,
\* each tagged with the path of the file it came from.
C10_FolderJoinsFilesInPathOrder ==
    pc \in {"files", "returned"} =>
        LET order == PathOrder
            joined == FilesJoined(order, Len(files))
        IN  /\ Len(files) <= Len(order)
            /\ pc = "returned" => Len(files) = Len(order)
            /\ \A k \in 1..Len(files) : files[k][1] = order[k]
            /\ all_valids = joined.valids
            /\ all_errors = joined.errors

\* A folder of three CSV files and a file that is no CSV file, returned from:
\* B.csv holds a rejected row, a.csv and b.csv a valid row each
C10_Witness ==
    /\ pc = "returned"
    /\ folder = { <<"a",".","c","s","v">>, <<"B",".","c","s","v">>, <<"b",".","c","s","v">> }
    /\ files = << <<<<"d","a","t","a","/","B",".","c","s","v">>, <<InvalidLine>> >>,
                  <<<<"d","a","t","a","/","a",".","c","s","v">>, <<ValidLine>> >>,
                  <<<<"d","a","t","a","/","b",".","c","s","v">>, <<OtherValidLine>> >> >>
    /\ Len(all_valids) = 2 /\ all_valids[1] # all_valids[2]
    /\ Len(all_errors) = 1 /\ all_errors[1][1] = <<"d","a","t","a","/","B",".","c","s","v">>

----------------------------------------------------------------------------
(* write_errors (lines 149-158) and the exit statuses of main (lines 229-302) *)

\* ", ".join(msgs): the reasons are kept whole
RECURSIVE join(_)
join(msgs) ==
    IF msgs = <<>> THEN <<>>
    ELSE IF Len(msgs) = 1 THEN msgs
    ELSE <<Head(msgs), ",", " ">> \o join(Tail(msgs))

\* The character U+2192 of the f-strings of write_errors
Arrow == "->"

\* f"Line {ln}: {raw} -> {msg}"
LineText(ln, raw, msgs) ==
    <<"L","i","n","e"," ">> \o IntToStr(ln) \o <<":"," ">> \o raw \o <<" ", Arrow, " ">> \o join(msgs)

\* The line write_errors writes for one entry of errors, without its newline
FormatError(err) ==
    IF Len(err) = 3 THEN LineText(err[1], err[2], err[3])
    ELSE basename(err[1]) \o <<":">> \o LineText(err[2], err[3], err[4])

\* The lines of the file write_errors(errors, "errors.txt") writes
write_errors(errs) == [k \in 1..Len(errs) |-> FormatError(errs[k])]

\* all_errors of a run on one file with the errors left as parse_csv_file
\* returned them
ErrorsAsParsed(path, e) == e

\* "all_errors = [(args.i, ln, raw, msg) for (ln, raw, msg) in e]"
IncludeFilename(path, e) == [k \in 1..Len(e) |-> <<path>> \o e[k]]

\* The ways main ends a run
Endings ==
    { "help", "done", "json_not_found", "json_malformed", "csv_not_found",
      "csv_not_read", "dir_not_found", "db_not_written", "errors_not_written",
      "query_not_found", "query_not_read", "query_raised", "response_not_written" }

\* ExitStatus with a query document that is not found taken as a failure of
\* run_queries
ExitStatusQueryNotFoundAsNotRun(ending) ==
    CASE ending \in {"help", "done"} -> 0
      [] ending = "csv_not_read" -> 1
      [] ending \in {"json_not_found", "json_malformed", "csv_not_found",
                     "dir_not_found"} -> 2
      [] ending = "db_not_written" -> 3
      [] ending = "errors_not_written" -> 4
      [] ending \in {"query_not_found", "query_not_read", "query_raised",
                     "response_not_written"} -> 5

\* The status of the process for each way main ends: the argument of sys.exit,
\* 0 after the last statement of main, and 1 when an exception leaves main (the
\* open() of parse_csv_file is in no try block)
ExitStatus(ending) ==
    CASE ending \in {"help", "done"} -> 0
      [] ending = "csv_not_read" -> 1
      [] ending \in {"json_not_found", "json_malformed", "csv_not_found",
                     "dir_not_found"} -> 2
      [] ending = "db_not_written" -> 3
      [] ending = "errors_not_written" -> 4
      [] ending = "query_not_found" -> 2
      [] ending \in {"query_not_read", "query_raised", "response_not_written"} -> 5

----------------------------------------------------------------------------
(* Spec: a run of main *)

\* An option that was not given: argparse leaves None, and main tests the truth
\* of the option, so an empty text counts as not given too
NoArg == <<>>

\* The parsed command line: argparse refuses -i together with -d
Args ==
    { a \in [i : {NoArg, <<"i","n",".","c","s","v">>, <<"c","s","v","/","i","n",".","c","s","v">>}, d : {NoArg, DataDir},
             j : {NoArg, <<"d","b",".","j","s","o","n">>}, q : {NoArg, <<"q",".","j","s","o","n">>}] :
        a.i = NoArg \/ a.d = NoArg }

\* The folders -d may name: empty, two CSV files, one CSV file and another file
MainListings ==
    { {}, { <<"a",".","c","s","v">>, <<"B",".","c","s","v">> }, { <<"b",".","c","s","v">>, <<"a",".","c","s","v",".","t","x","t">> } }

QAny == QueryOf(Absent, Absent, Absent, Absent, Absent, Absent, Absent)
QFromJfk == QueryOf(Absent, JStr(JFK), Absent, Absent, Absent, Absent, Absent)
QNoNumber == QueryOf(Absent, Absent, Absent, Absent, Absent, JStr(NoNumber), Absent)

\* The query documents as run_queries loops over them: a single object is
\* wrapped in a list
QueryDocs ==
    { <<>>, <<QAny>>, <<QFromJfk>>, <<QNoNumber>>, <<QAny, QFromJfk>>,
      <<QFromJfk, QNoNumber>> }

Init ==
    /\ pc = "start"
    /\ pad_year = TRUE
    /\ args \in Args
    /\ env = <<>> /\ db_records = <<>> /\ errors_txt = <<>> /\ exit_code = -1
    /\ all_errors = <<>>
    /\ RowIdle /\ QueryIdle /\ FileIdle /\ FolderIdle

\* The end of the run: sys.exit, an exception that leaves main, or the end of main
Exit(ending) ==
    /\ pc' = "exited"
    /\ env' = Append(env, ending)
    /\ exit_code' = ExitStatus(ending)

\* The run goes on to the step next after the file system answered with answer
Goto(next, answer) ==
    /\ pc' = next
    /\ env' = Append(env, answer)
    /\ UNCHANGED exit_code

\* "if args.j:" and load_json_db raises
LoadJsonFails ==
    /\ pc = "start" /\ args.j # NoArg
    /\ \E ending \in {"json_not_found", "json_malformed"} : Exit(ending)
    /\ UNCHANGED <<pad_year, args, db_records, errors_txt, all_errors,
                   rowVars, queryVars, fileVars, folderVars>>

\* "db_records = load_json_db(args.j)"
LoadJson ==
    /\ pc = "start" /\ args.j # NoArg
    /\ \E data \in Datasets : db' = data /\ db_records' = data
    /\ Goto("write_db", "json_loaded")
    /\ UNCHANGED <<pad_year, args, errors_txt, all_errors, query, matches,
                   rowVars, fileVars, folderVars>>

\* "if not os.path.exists(args.i):"
CsvNotFound ==
    /\ pc = "start" /\ args.j = NoArg /\ args.i # NoArg
    /\ Exit("csv_not_found")
    /\ UNCHANGED <<pad_year, args, db_records, errors_txt, all_errors,
                   rowVars, queryVars, fileVars, folderVars>>

\* args.i exists and open() or the decoding of a line raises in parse_csv_file
CsvNotRead ==
    /\ pc = "start" /\ args.j = NoArg /\ args.i # NoArg
    /\ Exit("csv_not_read")
    /\ UNCHANGED <<pad_year, args, db_records, errors_txt, all_errors,
                   rowVars, queryVars, fileVars, folderVars>>

\* "v, e = parse_csv_file(args.i)" and the two assignments after it
ParseCsv ==
    /\ pc = "start" /\ args.j = NoArg /\ args.i # NoArg
    /\ \E body \in FileBodies(MaxFolderLines) : \E parsed \in {parse_csv_file(body)} :
          /\ files' = << <<args.i, body>> >>
          /\ db_records' = parsed.valids
          /\ all_errors' = IncludeFilename(args.i, parsed.errors)
    /\ Goto("write_db", "csv_read")
    /\ UNCHANGED <<pad_year, args, errors_txt, folder, paths, all_valids,
                   rowVars, queryVars, fileVars>>

\* "if not os.path.isdir(args.d):"
DirNotFound ==
    /\ pc = "start" /\ args.j = NoArg /\ args.i = NoArg /\ args.d # NoArg
    /\ Exit("dir_not_found")
    /\ UNCHANGED <<pad_year, args, db_records, errors_txt, all_errors,
                   rowVars, queryVars, fileVars, folderVars>>

\* args.d is a folder, holding the files named in listing: parse_folder is
\* entered, and goes on with Glob and ParseNextFile
DirFound ==
    /\ pc = "start" /\ args.j = NoArg /\ args.i = NoArg /\ args.d # NoArg
    /\ \E listing \in MainListings : folder' = listing
    /\ Goto("glob", "dir_found")
    /\ UNCHANGED <<pad_year, args, db_records, errors_txt, all_errors,
                   files, paths, all_valids, rowVars, queryVars, fileVars>>

\* A file of the folder that open() or the decoding of a line raises for
FolderFileNotRead ==
    /\ pc = "files" /\ paths # <<>>
    /\ Exit("csv_not_read")
    /\ UNCHANGED <<pad_year, args, db_records, errors_txt, all_errors,
                   rowVars, queryVars, fileVars, folderVars>>

\* parse_folder returns: "db_records = v" and "all_errors = e"
FolderParsed ==
    /\ pc = "files" /\ paths = <<>>
    /\ db_records' = all_valids
    /\ Goto("write_db", "dir_read")
    /\ UNCHANGED <<pad_year, args, errors_txt, all_errors,
                   rowVars, queryVars, fileVars, folderVars>>

\* None of -j, -i and -d: "parser.print_help()" and "sys.exit(0)"
PrintHelp ==
    /\ pc = "start" /\ args.j = NoArg /\ args.i = NoArg /\ args.d = NoArg
    /\ Exit("help")
    /\ UNCHANGED <<pad_year, args, db_records, errors_txt, all_errors,
                   rowVars, queryVars, fileVars, folderVars>>

\* "write_db_json(db_records, out_db_path)"
WriteDb ==
    /\ pc = "write_db"
    /\ Goto("write_errors", "db_written")
    /\ UNCHANGED <<pad_year, args, db_records, errors_txt, all_errors,
                   rowVars, queryVars, fileVars, folderVars>>

WriteDbFails ==
    /\ pc = "write_db"
    /\ Exit("db_not_written")
    /\ UNCHANGED <<pad_year, args, db_records, errors_txt, all_errors,
                   rowVars, queryVars, fileVars, folderVars>>

\* "write_errors(all_errors, "errors.txt")"
WriteErrors ==
    /\ pc = "write_errors"
    /\ errors_txt' = write_errors(all_errors)
    /\ Goto("queries", "errors_written")
    /\ UNCHANGED <<pad_year, args, db_records, all_errors,
                   rowVars, queryVars, fileVars, folderVars>>

WriteErrorsFails ==
    /\ pc = "write_errors"
    /\ Exit("errors_not_written")
    /\ UNCHANGED <<pad_year, args, db_records, errors_txt, all_errors,
                   rowVars, queryVars, fileVars, folderVars>>

\* "if args.q:" is false: main ends
NoQueries ==
    /\ pc = "queries" /\ args.q = NoArg
    /\ Exit("done")
    /\ UNCHANGED <<pad_year, args, db_records, errors_txt, all_errors,
                   rowVars, queryVars, fileVars, folderVars>>

\* "if not os.path.exists(args.q):"
QueryNotFound ==
    /\ pc = "queries" /\ args.q # NoArg
    /\ Exit("query_not_found")
    /\ UNCHANGED <<pad_year, args, db_records, errors_txt, all_errors,
                   rowVars, queryVars, fileVars, folderVars>>

\* run_queries raises before or after its loop: the document cannot be opened
\* or is no JSON, or the response file cannot be written
RunQueriesFails ==
    /\ pc = "queries" /\ args.q # NoArg
    /\ \E ending \in {"query_not_read", "response_not_written"} : Exit(ending)
    /\ UNCHANGED <<pad_year, args, db_records, errors_txt, all_errors,
                   rowVars, queryVars, fileVars, folderVars>>

\* run_queries over the document doc: a match_query that raises ends the run,
\* otherwise the responses are written and main ends
RunQueries ==
    /\ pc = "queries" /\ args.q # NoArg
    /\ \E doc \in QueryDocs :
       \E responses \in {[k \in 1..Len(doc) |-> match_query(db_records, doc[k])]} :
          /\ query' = doc
          /\ IF \E k \in 1..Len(doc) : responses[k].raised
             THEN Exit("query_raised") /\ UNCHANGED matches
             ELSE Exit("done") /\ matches' = responses
    /\ UNCHANGED <<pad_year, args, db, db_records, errors_txt, all_errors,
                   rowVars, fileVars, folderVars>>

Next ==
    \/ LoadJsonFails \/ LoadJson
    \/ CsvNotFound \/ CsvNotRead \/ ParseCsv
    \/ DirNotFound \/ DirFound \/ Glob \/ ParseNextFile \/ FolderFileNotRead
    \/ FolderParsed
    \/ PrintHelp
    \/ WriteDb \/ WriteDbFails \/ WriteErrors \/ WriteErrorsFails
    \/ NoQueries \/ QueryNotFound \/ RunQueriesFails \/ RunQueries

Spec == Init /\ [][Next]_vars

----------------------------------------------------------------------------
(* Properties of a run of main, checked under Spec *)

\* The run parses the file given with -i; the run parses the folder given with -d
SingleFileRun == args.j = NoArg /\ args.i # NoArg
FolderRun == args.j = NoArg /\ args.i = NoArg /\ args.d # NoArg

\* errors.txt has been written
ReportWritten == \E k \in 1..Len(env) : env[k] = "errors_written"

\* The diagnostics of the files the run opened, file after file, as lines of
\* the form "Line <n>: <original line text> -> <reasons>", each after the base
\* name of its file and a colon if prefixed
RECURSIVE Report(_, _)
Report(fs, prefixed) ==
    IF fs = <<>> THEN <<>>
    ELSE LET e == parse_csv_file(Head(fs)[2]).errors
             prefix == IF prefixed THEN basename(Head(fs)[1]) \o <<":">> ELSE <<>>
         IN  [k \in 1..Len(e) |-> prefix \o LineText(e[k][1], e[k][2], e[k][3])]
             \o Report(Tail(fs), prefixed)

\* C7 as claimed: the lines of the diagnostics report carry the file-name prefix
\* only in a run that scanned a folder; in a run on a single file (-i) every
\* line has the form "Line <n>: <original line text> -> <reasons>" with no
\* prefix.
C7_PrefixOnlyInFolderRuns ==
    ReportWritten =>
        /\ FolderRun => errors_txt = Report(files, TRUE)
        /\ SingleFileRun => errors_txt = Report(files, FALSE)

\* C7: every line of the diagnostics report carries the file-name prefix, in a
\* run on a single file (-i) as in a run that scanned a folder (-d): the line is
\* "<filename>:Line <n>: <original line text> -> <reasons>", <filename> the base
\* name of the file the line is about; a run that loads a dataset (-j) writes
\* an empty report.
C7_PrefixInEveryRun ==
    ReportWritten =>
        /\ errors_txt = Report(files, TRUE)
        /\ ~(SingleFileRun \/ FolderRun) => errors_txt = <<>>

\* A run on the single file csv/in.csv that wrote a report whose first line
\* starts with "in.csv:Line 1: "
C7_Witness ==
    /\ SingleFileRun /\ ReportWritten
    /\ args.i = <<"c","s","v","/","i","n",".","c","s","v">>
    /\ Len(errors_txt) >= 1
    /\ Len(errors_txt[1]) > 15
    /\ SubSeq(errors_txt[1], 1, 15) = <<"i","n",".","c","s","v",":","L","i","n","e"," ","1",":"," ">>

\* The failures of a run, by category
LoadFailures ==
    {"json_not_found", "json_malformed", "csv_not_found", "csv_not_read", "dir_not_found"}
WriteFailures == {"db_not_written", "errors_not_written"}
QueryFailures ==
    {"query_not_found", "query_not_read", "query_raised", "response_not_written"}
Failures == LoadFailures \cup WriteFailures \cup QueryFailures

CategoryOf(ending) ==
    IF ending \in LoadFailures THEN "load"
    ELSE IF ending \in WriteFailures THEN "write" ELSE "query"

\* How the run ended
Ending == env[Len(env)]

\* C8 as claimed: a failure ends the run with a non-zero exit code, and no
\* failure of another category (load, write, query) ends a run with the same
\* code.
C8_CategoriesShareNoStatus ==
    (pc = "exited" /\ Ending \in Failures) =>
        /\ exit_code # 0
        /\ \A other \in Failures :
              CategoryOf(other) # CategoryOf(Ending) => ExitStatus(other) # exit_code

\* C8: a failure ends the run with a non-zero exit code, and a run without a
\* failure with 0: a load failure with 2 (input file, folder or dataset
\* document not found, dataset document malformed) or 1 (an input file that
\* cannot be read), a failure to write the dataset with 3, to write the
\* diagnostics with 4, a query failure with 5 (query document unreadable or
\* malformed, query-level error, response not written), except that a query
\* document that is not found ends the run with 2, the code of the load
\* failures.
C8_StatusOfEachFailure ==
    pc = "exited" =>
        /\ Ending \in Failures <=> exit_code # 0
        /\ Ending \in LoadFailures => exit_code \in {1, 2}
        /\ Ending = "csv_not_read" <=> exit_code = 1
        /\ Ending = "db_not_written" <=> exit_code = 3
        /\ Ending = "errors_not_written" <=> exit_code = 4
        /\ Ending \in QueryFailures \ {"query_not_found"} <=> exit_code = 5
        /\ Ending = "query_not_found" => exit_code = 2

\* A run that read its input, wrote both files and did not find the query
\* document: exit code 2
C8_Witness ==
    /\ pc = "exited"
    /\ Ending = "query_not_found"
    /\ \E k \in 1..Len(env) : env[k] = "csv_read"
    /\ ReportWritten
    /\ exit_code = 2

====
